---- MODULE Spec2Model ----
(***************************************************************************)
(* Model of chess-gif-rs (src/src/lib.rs): square geometry, the board      *)
(* rasterizer, the palette quantizer, and the GameRenderer that streams    *)
(* frames into a GIF encoder with one frame of lookahead, driven by the    *)
(* pgn_reader visitor events.                                              *)
(*                                                                         *)
(* A raster is 400x400; pixel (x, y) has position y*400 + x in the vectors *)
(* the code builds.  Quantization and the delta pass treat every position  *)
(* independently, so the pipeline model keeps the positions of one sample  *)
(* pixel per modelled square and follows them through the code.            *)
(***************************************************************************)
EXTENDS Integers, Sequences, FiniteSets

VARIABLES
    pc,            \* position of the driver: which visitor event comes next
    flip,          \* GameRenderer.flip
    PIECE_IMAGES,  \* the decoded sprites (assets), sampled
    tags,          \* Visitor::Tags   = Option<VariantPosition>
    movetext,      \* Visitor::Movetext = VariantPosition (its board)
    last_image,    \* GameRenderer.last_image: Option<(Vec<u8>, HashSet<usize>)>
    written,       \* frames the encoder has written, in order
    created,       \* the output file has been created (GameRenderer::new)
    output,        \* what read_game / render_game returned
    submitted,     \* history: the pairs render_frame stored in last_image
    moves,         \* history: the moves san played
    ntags,         \* number of tag events so far
    calls,         \* history: the GameRenderer methods called, in order
    variations,    \* number of variations the reader has skipped
    pixel,         \* quantizer check: the input colour
    indexed,       \* quantizer check: Option<palette index>
    squares,       \* geometry check: a pair of squares
    offsets,       \* geometry check: Option<pair of pixel offsets>
    flips,         \* geometry check: times the flip was applied to the offsets
    point,         \* rasterizer check: a pixel (x, y) of the canvas
    rendered       \* rasterizer check: Option<colour of that pixel>

vars == <<pc, flip, PIECE_IMAGES, tags, movetext, last_image, written, created,
          output, submitted, moves, ntags, calls, variations, pixel, indexed,
          squares,
          offsets, flips, point, rendered>>

pipeVars == <<pc, flip, PIECE_IMAGES, tags, movetext, last_image, written,
              created, output, submitted, moves, ntags, calls, variations>>
quantVars == <<pixel, indexed>>
geomVars == <<squares, offsets, flips>>
rasterVars == <<point, rendered>>

\* Option<T>: None is the empty sequence, Some(v) the one-element sequence.
None == <<>>
Some(v) == <<v>>
IsSome(o) == o # None
Unwrap(o) == o[1]

----------------------------------------------------------------------------
\* Bounds of the model.

\* number of board squares whose occupant the model follows
NumSquares == 3
\* number of san events in one game
MaxMoves == 2
\* number of tag events in one game
MaxTags == 1
\* number of variations in the movetext of one game
MaxVariations == 1
\* colours per channel in the grid of quantizer inputs
GridLevels == 5
\* quantizer inputs within this distance (per channel) of a palette entry
Radius == 1

----------------------------------------------------------------------------
\* Program constants.

\* side of a square in pixels
SquareSize == 50
\* squares per side of the board
BoardSide == 8
\* offset of the last square, used by the flip
FlipOrigin == 350
\* width and height of the canvas
CanvasSize == 400
TRANSPARENT_IDX == 20
\* delay of a frame written by render_frame
FRAME_DELAY == 62
\* delay of the frame written by render_final_frame
FINAL_DELAY == 500

PALETTE ==
    << <<255, 206, 158>>, <<209, 139, 71>>, <<159, 129, 99>>, <<111, 90, 69>>,
       <<131, 87, 44>>, <<91, 61, 31>>, <<47, 38, 29>>, <<0, 0, 0>>,
       <<79, 64, 49>>, <<207, 167, 128>>, <<63, 51, 39>>, <<39, 26, 13>>,
       <<175, 141, 108>>, <<169, 112, 57>>, <<143, 116, 89>>, <<127, 102, 78>>,
       <<156, 104, 53>>, <<118, 78, 40>>, <<192, 155, 118>>, <<79, 63, 48>>,
       <<255, 255, 255>> >>

\* palette indices as the code counts them (from 0)
PaletteIdx == 0 .. (Len(PALETTE) - 1)
PaletteAt(i) == PALETTE[i + 1]

----------------------------------------------------------------------------
\* Square geometry.

AllSquares == 0 .. (BoardSide * BoardSide - 1)
file(square) == square % BoardSide
rank(square) == square \div BoardSide

\* a square_to_pixels whose rank step is half a square
square_to_pixels_halfrank(square) ==
    << file(square) * SquareSize, ((BoardSide - 1) - rank(square)) * (SquareSize \div 2) >>

square_to_pixels(square) ==
    << file(square) * SquareSize, ((BoardSide - 1) - rank(square)) * SquareSize >>

\* a flip that mirrors the x axis only
FlipOffsetMirrorX(o) == << FlipOrigin - o[1], o[2] >>

\* the two assignments render_board makes when flip is set
FlipOffset(o) == << FlipOrigin - o[1], FlipOrigin - o[2] >>

\* the offset render_board overlays the sprite of `square` at
SquareOffset(square, f) ==
    IF f THEN FlipOffset(square_to_pixels(square)) ELSE square_to_pixels(square)

----------------------------------------------------------------------------
\* Board rasterizer.

\* the squares the model follows, in the order NumSquares takes them:
\* a1, a3, a8, a4, h8, h1
ModelSquares == << 0, 16, 56, 24, 63, 7 >>
Squares == { ModelSquares[k] : k \in 1 .. NumSquares }

\* the piece kinds of the model: a white rook and a black rook
Pieces == { "R", "r" }
NoPiece == "-"
Boards == [Squares -> Pieces \cup {NoPiece}]
\* the positions a FEN tag sets up in the model: at most one piece on the
\* modelled squares
FenBoards == { b \in Boards : Cardinality({ sq \in Squares : b[sq] # NoPiece }) <= 1 }

\* Chess::new(): the standard starting position, on the modelled squares
StartPiece(square) ==
    IF square \in {0, 7} THEN "R"
    ELSE IF square \in {56, 63} THEN "r"
    ELSE NoPiece
DefaultBoard == [sq \in Squares |-> StartPiece(sq)]

\* the sample pixel of a square, relative to the square's offset
Sample == << 25, 25 >>
\* pixel position in the row-major vector of a raster
Position(x, y) == y * CanvasSize + x
PosX(i) == i % CanvasSize
PosY(i) == i \div CanvasSize
\* the position of the sample pixel of `square`
SamplePos(square, f) ==
    LET o == SquareOffset(square, f)
    IN  Position(o[1] + Sample[1], o[2] + Sample[2])
\* the pixel positions the model follows
Pix(f) == { SamplePos(sq, f) : sq \in Squares }

\* colours (RGBA)
Light == << 255, 206, 158, 255 >>
Dark == << 209, 139, 71, 255 >>
\* what a sprite holds at its sample pixel: nothing, opaque black, opaque white
SpritePixels == { << 0, 0, 0, 0 >>, << 0, 0, 0, 255 >>, << 255, 255, 255, 255 >> }
Assets == [Pieces -> [{Sample} -> SpritePixels]]

\* u32 exclusive or
RECURSIVE BitXor(_, _)
BitXor(a, b) ==
    IF a = 0 /\ b = 0 THEN 0
    ELSE (((a % 2) + (b % 2)) % 2) + 2 * BitXor(a \div 2, b \div 2)

\* a blank_board with the two colours exchanged
blank_board_swapped(x, y) ==
    IF BitXor(x \div SquareSize, y \div SquareSize) % 2 = 0 THEN Dark ELSE Light

blank_board(x, y) ==
    IF BitXor(x \div SquareSize, y \div SquareSize) % 2 = 0 THEN Light ELSE Dark

\* Rgba::blend for a fully transparent or fully opaque foreground pixel (the
\* sprite pixels of the model have alpha 0 or 255)
blend(bg, fg) == IF fg[4] = 0 THEN bg ELSE fg

\* imageops::overlay of `sprite` at (ox, oy), seen at pixel (x, y)
overlay(px, sprite, ox, oy, x, y) ==
    IF /\ ox <= x /\ x < ox + SquareSize
       /\ oy <= y /\ y < oy + SquareSize
    THEN blend(px, sprite[<< x - ox, y - oy >>])
    ELSE px

\* the loop of render_board over Square::ALL (ascending), seen at one pixel
RECURSIVE OverlayAll(_, _, _, _, _, _)
OverlayAll(px, todo, board, f, x, y) ==
    IF todo = {} THEN px
    ELSE LET square == CHOOSE s \in todo : \A t \in todo : s <= t
             o == SquareOffset(square, f)
             next == IF board[square] # NoPiece
                     THEN overlay(px, PIECE_IMAGES[board[square]], o[1], o[2], x, y)
                     ELSE px
         IN  OverlayAll(next, todo \ {square}, board, f, x, y)

\* render_board, seen at pixel (x, y): the blank board, then the sprites
RenderPixel(board, f, x, y) ==
    OverlayAll(blank_board(x, y), Squares, board, f, x, y)

\* render_board: the raster, at the positions the model follows
render_board(board, f) ==
    [i \in Pix(f) |-> RenderPixel(board, f, PosX(i), PosY(i))]

\* a board with no piece on it
EmptyBoard == [sq \in Squares |-> NoPiece]
\* the pixels of the raster blank_board builds: 8 * 50 by 8 * 50
RasterSide == BoardSide * SquareSize
RasterPoints == (0 .. (RasterSide - 1)) \X (0 .. (RasterSide - 1))

----------------------------------------------------------------------------
\* Palette quantizer.

abs_diff(a, b) == IF a >= b THEN a - b ELSE b - a

\* the key of position_min_by_key
Key(entry, p) ==
    abs_diff(entry[1], p[1]) + abs_diff(entry[2], p[2]) + abs_diff(entry[3], p[3])

\* Itertools::position_min_by_key: scan from the front, keep the first minimum
RECURSIVE position_min_by_key(_, _, _, _)
position_min_by_key(p, i, best, bestKey) ==
    IF i > Len(PALETTE) - 1 THEN best
    ELSE IF Key(PaletteAt(i), p) < bestKey
         THEN position_min_by_key(p, i + 1, i, Key(PaletteAt(i), p))
         ELSE position_min_by_key(p, i + 1, best, bestKey)

\* a scan that keeps the last minimum instead of the first
RECURSIVE position_last_min(_, _, _, _)
position_last_min(p, i, best, bestKey) ==
    IF i > Len(PALETTE) - 1 THEN best
    ELSE IF Key(PaletteAt(i), p) <= bestKey
         THEN position_last_min(p, i + 1, i, Key(PaletteAt(i), p))
         ELSE position_last_min(p, i + 1, best, bestKey)
QuantizeLastMin(p) == position_last_min(p, 1, 0, Key(PaletteAt(0), p))

\* the closure of render_frame's map: the palette index of one pixel
Quantize(p) == position_min_by_key(p, 1, 0, Key(PaletteAt(0), p))

----------------------------------------------------------------------------
\* GameRenderer.

\* the number of pixels img.pixels() yields, which collect_vec keeps
RasterLen == RasterSide * RasterSide

\* a frame handed to Encoder::write_frame: Frame::from_indexed_pixels(400, 400,
\* pixels, ..) with its delay; len is the length of the pixel vector
Frame(pixels, len, delay) ==
    [pixels |-> pixels, len |-> len, delay |-> delay,
     width |-> CanvasSize, height |-> CanvasSize]
\* the pair held in last_image; len is the length of the pixel vector
Held(pixels, transparent) ==
    [pixels |-> pixels, transparent |-> transparent, len |-> RasterLen]

\* the colours a raster of the model can hold, and the palette index of each
\* (Quantize, evaluated once per colour)
RasterColours == { Light, Dark } \cup { c \in SpritePixels : c[4] # 0 }
Quantized == [p \in RasterColours |-> Quantize(p)]

\* render_frame's map over img.pixels()
IndexedPixels(img) == [i \in DOMAIN img |-> Quantized[img[i]]]

\* a delta pass that marks the positions that changed
ChangedIndexes(indexed_pixels, prev) ==
    IF IsSome(prev)
    THEN { i \in DOMAIN indexed_pixels : indexed_pixels[i] # Unwrap(prev).pixels[i] }
    ELSE {}

\* a delta pass that marks nothing
NoTransparentIndexes(indexed_pixels, prev) == {}

\* the positions where the new frame equals the held one
TransparentIndexes(indexed_pixels, prev) ==
    IF IsSome(prev)
    THEN { i \in DOMAIN indexed_pixels : indexed_pixels[i] = Unwrap(prev).pixels[i] }
    ELSE {}

\* a substitution that writes the number of palette entries as the sentinel
FramePixelsOffPalette(prev_pixels, prev_transparent) ==
    [i \in DOMAIN prev_pixels |->
        IF i \in prev_transparent THEN Len(PALETTE) ELSE prev_pixels[i]]

\* the pixels of a written frame: the sentinel at the transparent positions
FramePixels(prev_pixels, prev_transparent) ==
    [i \in DOMAIN prev_pixels |->
        IF i \in prev_transparent THEN TRANSPARENT_IDX ELSE prev_pixels[i]]

\* the frame render_frame writes for the displaced pair
FlushedFrame(prev) ==
    Frame(FramePixels(prev.pixels, prev.transparent), prev.len, FRAME_DELAY)

\* a final frame that keeps the delay of the other frames
FinalFrameShort(prev) ==
    Frame(FramePixels(prev.pixels, prev.transparent), prev.len, FRAME_DELAY)

\* the frame render_final_frame writes for the taken pair
FinalFrame(prev) ==
    Frame(FramePixels(prev.pixels, prev.transparent), prev.len, FINAL_DELAY)

\* a render_frame without lookahead: it writes the incoming frame at once
render_frame_eager(pos) ==
    LET img == render_board(pos, flip)
        indexed_pixels == IndexedPixels(img)
        transparent_indexes == TransparentIndexes(indexed_pixels, last_image)
        held == Held(indexed_pixels, transparent_indexes)
    IN  /\ last_image' = Some(held)
        /\ submitted' = Append(submitted, held)
        /\ calls' = Append(calls, "render_frame")
        /\ written' = Append(written, FlushedFrame(held))

\* a render_frame that keeps the sentinel-substituted pixels in the slot, so
\* that the next comparison sees them
render_frame_substituted(pos) ==
    LET img == render_board(pos, flip)
        indexed_pixels == IndexedPixels(img)
        transparent_indexes == TransparentIndexes(indexed_pixels, last_image)
        held == Held(FramePixels(indexed_pixels, transparent_indexes),
                     transparent_indexes)
    IN  /\ last_image' = Some(held)
        /\ submitted' = Append(submitted, held)
        /\ calls' = Append(calls, "render_frame")
        /\ written' = IF IsSome(last_image)
                      THEN Append(written, FlushedFrame(Unwrap(last_image)))
                      ELSE written

\* a render_frame that puts the displaced frame in front of the output
render_frame_prepend(pos) ==
    LET img == render_board(pos, flip)
        indexed_pixels == IndexedPixels(img)
        transparent_indexes == TransparentIndexes(indexed_pixels, last_image)
        held == Held(indexed_pixels, transparent_indexes)
    IN  /\ last_image' = Some(held)
        /\ submitted' = Append(submitted, held)
        /\ calls' = Append(calls, "render_frame")
        /\ written' = IF IsSome(last_image)
                      THEN << FlushedFrame(Unwrap(last_image)) >> \o written
                      ELSE written

\* GameRenderer::render_frame(pos)
render_frame(pos) ==
    LET img == render_board(pos, flip)
        indexed_pixels == IndexedPixels(img)
        transparent_indexes == TransparentIndexes(indexed_pixels, last_image)
        held == Held(indexed_pixels, transparent_indexes)
    IN  /\ last_image' = Some(held)
        /\ submitted' = Append(submitted, held)
        /\ calls' = Append(calls, "render_frame")
        /\ written' = IF IsSome(last_image)
                      THEN Append(written, FlushedFrame(Unwrap(last_image)))
                      ELSE written

\* a render_final_frame that empties the slot and writes nothing
render_final_frame_drop ==
    /\ last_image' = None
    /\ calls' = Append(calls, "render_final_frame")
    /\ written' = written

\* a render_final_frame that writes the held frame and leaves it in the slot
render_final_frame_keep ==
    /\ last_image' = last_image
    /\ calls' = Append(calls, "render_final_frame")
    /\ written' = IF IsSome(last_image)
                  THEN Append(written, FinalFrame(Unwrap(last_image)))
                  ELSE written

\* GameRenderer::render_final_frame
render_final_frame ==
    /\ last_image' = None
    /\ calls' = Append(calls, "render_final_frame")
    /\ written' = IF IsSome(last_image)
                  THEN Append(written, FinalFrame(Unwrap(last_image)))
                  ELSE written

----------------------------------------------------------------------------
\* The driver (pgn_reader::Reader::read_game) and the visitor.

Result(kind, context) == [kind |-> kind, context |-> context]
Pending == Result("pending", <<>>)

\* a SAN token of the model: the piece on `from` goes to `to`
SanTokens == { m \in [from : Squares, to : Squares] : m.from # m.to }
\* San::to_move: the engine accepts the token in this position (in the model:
\* there is a piece to move)
ToMoveOk(board, m) == board[m.from] # NoPiece
\* Position::play_unchecked
play_unchecked(board, m) ==
    [board EXCEPT ![m.to] = board[m.from], ![m.from] = NoPiece]
\* the squares a move touches
Touched(m) == { m.from, m.to }

\* a render_game that creates the output before it looks for a game
render_game_create_first ==
    /\ pc = "start"
    /\ created' = TRUE
    /\ \E has_more \in BOOLEAN :
         IF has_more
         THEN /\ pc' = "begin_tags"
              /\ UNCHANGED output
         ELSE /\ output' = Result("Ok(None)", <<>>)
              /\ pc' = "returned"
    /\ UNCHANGED <<flip, PIECE_IMAGES, tags, movetext, last_image, written,
                   submitted, moves, ntags, calls>>
    /\ UNCHANGED <<variations, quantVars, geomVars, rasterVars>>

\* render_game: no game in the input, or a renderer and read_game
render_game ==
    /\ pc = "start"
    /\ \E has_more \in BOOLEAN :
         IF has_more
         THEN /\ created' = TRUE
              /\ pc' = "begin_tags"
              /\ UNCHANGED output
         ELSE /\ output' = Result("Ok(None)", <<>>)
              /\ pc' = "returned"
              /\ UNCHANGED created
    /\ UNCHANGED <<flip, PIECE_IMAGES, tags, movetext, last_image, written,
                   submitted, moves, ntags, calls>>
    /\ UNCHANGED <<variations, quantVars, geomVars, rasterVars>>

begin_tags ==
    /\ pc = "begin_tags"
    /\ tags' = None
    /\ pc' = "tags"
    /\ UNCHANGED <<flip, PIECE_IMAGES, movetext, last_image, written, created,
                   output, submitted, moves, ntags, calls>>
    /\ UNCHANGED <<variations, quantVars, geomVars, rasterVars>>

\* Visitor::tag with name FEN: the value parses to a setup the variant
\* accepts, or the event breaks
tag_fen ==
    /\ pc = "tags"
    /\ ntags < MaxTags
    /\ ntags' = ntags + 1
    /\ \/ \E board \in FenBoards :
            /\ tags' = Some(board)
            /\ UNCHANGED <<pc, output>>
       \/ /\ output' = Result("Break(Err)", <<"FEN">>)
          /\ pc' = "returned"
          /\ UNCHANGED tags
    /\ UNCHANGED <<flip, PIECE_IMAGES, movetext, last_image, written, created,
                   submitted, moves, calls>>
    /\ UNCHANGED <<variations, quantVars, geomVars, rasterVars>>

\* Visitor::tag with name Variant (a variant with the standard start)
tag_variant ==
    /\ pc = "tags"
    /\ ntags < MaxTags
    /\ ntags' = ntags + 1
    /\ \/ /\ tags' = Some(IF IsSome(tags) THEN Unwrap(tags) ELSE DefaultBoard)
          /\ UNCHANGED <<pc, output>>
       \/ /\ output' = Result("Break(Err)", <<"Variant">>)
          /\ pc' = "returned"
          /\ UNCHANGED tags
    /\ UNCHANGED <<flip, PIECE_IMAGES, movetext, last_image, written, created,
                   submitted, moves, calls>>
    /\ UNCHANGED <<variations, quantVars, geomVars, rasterVars>>

\* Visitor::tag with any other name
tag_other ==
    /\ pc = "tags"
    /\ ntags < MaxTags
    /\ ntags' = ntags + 1
    /\ UNCHANGED <<pc, flip, PIECE_IMAGES, tags, movetext, last_image, written,
                   created, output, submitted, moves, calls>>
    /\ UNCHANGED <<variations, quantVars, geomVars, rasterVars>>

begin_movetext ==
    /\ pc = "tags"
    /\ LET pos == IF IsSome(tags) THEN Unwrap(tags) ELSE DefaultBoard
       IN  /\ render_frame(pos)
           /\ movetext' = Some(pos)
    /\ pc' = "movetext"
    /\ UNCHANGED <<flip, PIECE_IMAGES, tags, created, output, moves, ntags>>
    /\ UNCHANGED <<variations, quantVars, geomVars, rasterVars>>

\* Visitor::san, the move is valid
san_ok ==
    /\ pc = "movetext"
    /\ Len(moves) < MaxMoves
    /\ \E m \in SanTokens :
         /\ ToMoveOk(Unwrap(movetext), m)
         /\ movetext' = Some(play_unchecked(Unwrap(movetext), m))
         /\ render_frame(play_unchecked(Unwrap(movetext), m))
         /\ moves' = Append(moves, m)
    /\ UNCHANGED <<pc, flip, PIECE_IMAGES, tags, created, output, ntags>>
    /\ UNCHANGED <<variations, quantVars, geomVars, rasterVars>>

\* san_plus.to_string(): the text of the token
SanText(m) == << m.from, m.to >>

\* Visitor::san for token m, which is not valid in the position
san_err_with(m) ==
    /\ pc = "movetext"
    /\ Len(moves) < MaxMoves
    /\ ~ToMoveOk(Unwrap(movetext), m)
    /\ output' = Result("Break(Err)", SanText(m))
    /\ pc' = "returned"
    /\ UNCHANGED <<flip, PIECE_IMAGES, tags, movetext, last_image, written,
                   created, submitted, moves, ntags, calls>>
    /\ UNCHANGED <<variations, quantVars, geomVars, rasterVars>>

\* a san that submits the position before it reports the invalid move
san_err_render ==
    /\ pc = "movetext"
    /\ Len(moves) < MaxMoves
    /\ \E m \in SanTokens :
         /\ ~ToMoveOk(Unwrap(movetext), m)
         /\ output' = Result("Break(Err)", SanText(m))
    /\ render_frame(Unwrap(movetext))
    /\ pc' = "returned"
    /\ UNCHANGED <<flip, PIECE_IMAGES, tags, movetext, created, moves, ntags>>
    /\ UNCHANGED <<variations, quantVars, geomVars, rasterVars>>

\* a san that flushes the held frame as end_game does before it reports the
\* invalid move
san_err_flush ==
    /\ pc = "movetext"
    /\ Len(moves) < MaxMoves
    /\ \E m \in SanTokens :
         /\ ~ToMoveOk(Unwrap(movetext), m)
         /\ output' = Result("Break(Err)", SanText(m))
    /\ render_final_frame
    /\ pc' = "returned"
    /\ UNCHANGED <<flip, PIECE_IMAGES, tags, movetext, created, submitted,
                   moves, ntags>>
    /\ UNCHANGED <<variations, quantVars, geomVars, rasterVars>>

\* Visitor::san, the move is not valid in the position
san_err == \E m \in SanTokens : san_err_with(m)

\* a begin_variation that answers Skip(false): the reader delivers the move of
\* the variation to san, which plays and submits it
begin_variation_enter ==
    /\ pc = "movetext"
    /\ variations < MaxVariations
    /\ variations' = variations + 1
    /\ \E m \in SanTokens :
         /\ ToMoveOk(Unwrap(movetext), m)
         /\ movetext' = Some(play_unchecked(Unwrap(movetext), m))
         /\ render_frame(play_unchecked(Unwrap(movetext), m))
    /\ UNCHANGED <<pc, flip, PIECE_IMAGES, tags, created, output, moves, ntags>>
    /\ UNCHANGED <<quantVars, geomVars, rasterVars>>

\* Visitor::begin_variation answers Continue(Skip(true)): the reader drops the
\* variation, whatever move m it holds, and delivers none of it
begin_variation ==
    /\ pc = "movetext"
    /\ variations < MaxVariations
    /\ variations' = variations + 1
    /\ \E m \in SanTokens :
         UNCHANGED <<pc, flip, PIECE_IMAGES, tags, movetext, last_image,
                     written, created, output, submitted, moves, ntags, calls>>
    /\ UNCHANGED <<quantVars, geomVars, rasterVars>>

end_game ==
    /\ pc = "movetext"
    /\ render_final_frame
    /\ output' = Result("Ok(Some(Ok))", <<>>)
    /\ pc' = "done"
    /\ UNCHANGED <<flip, PIECE_IMAGES, tags, movetext, created, submitted,
                   moves, ntags>>
    /\ UNCHANGED <<variations, quantVars, geomVars, rasterVars>>

Init ==
    /\ pc = "start"
    /\ flip \in BOOLEAN
    /\ PIECE_IMAGES \in Assets
    /\ tags = None
    /\ movetext = None
    /\ last_image = None
    /\ written = <<>>
    /\ created = FALSE
    /\ output = Pending
    /\ submitted = <<>>
    /\ moves = <<>>
    /\ ntags = 0
    /\ calls = <<>>
    /\ variations = 0
    /\ pixel = << 0, 0, 0 >>
    /\ indexed = None
    /\ squares = << 0, 0 >>
    /\ offsets = None
    /\ flips = 0
    /\ point = << 0, 0 >>
    /\ rendered = None

Next ==
    \/ render_game
    \/ begin_tags
    \/ tag_fen
    \/ tag_variant
    \/ tag_other
    \/ begin_movetext
    \/ san_ok
    \/ san_err
    \/ end_game

Spec == Init /\ [][Next]_vars

----------------------------------------------------------------------------
\* The game pipeline on a movetext that holds variations.  A variation moves
\* only the reader's place in the input, so the behaviours of Spec are these
\* behaviours with the variation steps left out.

NextVariations ==
    \/ render_game
    \/ begin_tags
    \/ tag_fen
    \/ tag_variant
    \/ tag_other
    \/ begin_movetext
    \/ san_ok
    \/ san_err
    \/ begin_variation
    \/ end_game

SpecVariations == Init /\ [][NextVariations]_vars

----------------------------------------------------------------------------
\* The renderer on its own: GameRenderer's methods called in any order, by a
\* caller that does not follow the order of read_game.

\* the positions such a caller submits
UnitBoards == { EmptyBoard, DefaultBoard, play_unchecked(DefaultBoard, [from |-> 0, to |-> 16]) }

\* GameRenderer::new
new_renderer ==
    /\ pc = "start"
    /\ created' = TRUE
    /\ last_image' = None
    /\ pc' = "renderer"
    /\ UNCHANGED <<flip, PIECE_IMAGES, tags, movetext, written, output,
                   submitted, moves, ntags, calls>>
    /\ UNCHANGED <<variations, quantVars, geomVars, rasterVars>>

call_render_frame ==
    /\ pc = "renderer"
    /\ Len(calls) < MaxMoves + 2
    /\ \E pos \in UnitBoards : render_frame(pos)
    /\ UNCHANGED <<pc, flip, PIECE_IMAGES, tags, movetext, created, output,
                   moves, ntags>>
    /\ UNCHANGED <<variations, quantVars, geomVars, rasterVars>>

call_render_final_frame ==
    /\ pc = "renderer"
    /\ Len(calls) < MaxMoves + 2
    /\ render_final_frame
    /\ UNCHANGED <<pc, flip, PIECE_IMAGES, tags, movetext, created, output,
                   submitted, moves, ntags>>
    /\ UNCHANGED <<variations, quantVars, geomVars, rasterVars>>

NextUnit ==
    \/ render_game
    \/ new_renderer
    \/ call_render_frame
    \/ call_render_final_frame

SpecUnit == Init /\ [][NextUnit]_vars

----------------------------------------------------------------------------
\* The command-line game pipeline of main.rs: its own GameRenderer, its own
\* visitor, and main() which creates the renderer before it reads the game.

\* frame.delay of the frame main.rs's render_board writes
MAIN_FRAME_DELAY == 62
\* frame.delay of the frame main.rs's render_final_frame writes
MAIN_FINAL_DELAY == 62

\* the frame main.rs's render_board writes for the displaced pair
MainFlushedFrame(prev) ==
    Frame(FramePixels(prev.pixels, prev.transparent), prev.len, MAIN_FRAME_DELAY)

\* the frame main.rs's render_final_frame writes for the taken pair
MainFinalFrame(prev) ==
    Frame(FramePixels(prev.pixels, prev.transparent), prev.len, MAIN_FINAL_DELAY)

\* main.rs GameRenderer::render_board(pos)
main_render_board(pos) ==
    LET img == render_board(pos, flip)
        indexed_pixels == IndexedPixels(img)
        transparent_indexes == TransparentIndexes(indexed_pixels, last_image)
        held == Held(indexed_pixels, transparent_indexes)
    IN  /\ last_image' = Some(held)
        /\ submitted' = Append(submitted, held)
        /\ calls' = Append(calls, "render_board")
        /\ written' = IF IsSome(last_image)
                      THEN Append(written, MainFlushedFrame(Unwrap(last_image)))
                      ELSE written

\* main.rs GameRenderer::render_final_frame
main_render_final_frame ==
    /\ last_image' = None
    /\ calls' = Append(calls, "render_final_frame")
    /\ written' = IF IsSome(last_image)
                  THEN Append(written, MainFinalFrame(Unwrap(last_image)))
                  ELSE written

\* main(): GameRenderer::new, then read_game; with no game in the input the
\* unwrap of Ok(None) panics
main ==
    /\ pc = "main"
    /\ created' = TRUE
    /\ last_image' = None
    /\ \E has_more \in BOOLEAN :
         IF has_more
         THEN /\ pc' = "main_begin_tags"
              /\ UNCHANGED output
         ELSE /\ output' = Result("panic", <<>>)
              /\ pc' = "main_exit"
    /\ UNCHANGED <<flip, PIECE_IMAGES, tags, movetext, written, submitted,
                   moves, ntags, calls>>
    /\ UNCHANGED <<variations, quantVars, geomVars, rasterVars>>

main_begin_tags ==
    /\ pc = "main_begin_tags"
    /\ tags' = None
    /\ pc' = "main_tags"
    /\ UNCHANGED <<flip, PIECE_IMAGES, movetext, last_image, written, created,
                   output, submitted, moves, ntags, calls>>
    /\ UNCHANGED <<variations, quantVars, geomVars, rasterVars>>

\* main.rs Visitor::tag: FEN, Variant or another name; an Err breaks the game
\* and main's unwrap panics on it
main_tag ==
    /\ pc = "main_tags"
    /\ ntags < MaxTags
    /\ ntags' = ntags + 1
    /\ \/ \E board \in FenBoards :
            /\ tags' = Some(board)
            /\ UNCHANGED <<pc, output>>
       \/ /\ tags' = Some(IF IsSome(tags) THEN Unwrap(tags) ELSE DefaultBoard)
          /\ UNCHANGED <<pc, output>>
       \/ /\ output' = Result("panic", <<>>)
          /\ pc' = "main_exit"
          /\ UNCHANGED tags
       \/ UNCHANGED <<pc, output, tags>>
    /\ UNCHANGED <<flip, PIECE_IMAGES, movetext, last_image, written, created,
                   submitted, moves, calls>>
    /\ UNCHANGED <<variations, quantVars, geomVars, rasterVars>>

main_begin_movetext ==
    /\ pc = "main_tags"
    /\ LET pos == IF IsSome(tags) THEN Unwrap(tags) ELSE DefaultBoard
       IN  /\ main_render_board(pos)
           /\ movetext' = Some(pos)
    /\ pc' = "main_movetext"
    /\ UNCHANGED <<flip, PIECE_IMAGES, tags, created, output, moves, ntags>>
    /\ UNCHANGED <<variations, quantVars, geomVars, rasterVars>>

\* main.rs Visitor::san, the move is valid
main_san_ok ==
    /\ pc = "main_movetext"
    /\ Len(moves) < MaxMoves
    /\ \E m \in SanTokens :
         /\ ToMoveOk(Unwrap(movetext), m)
         /\ movetext' = Some(play_unchecked(Unwrap(movetext), m))
         /\ main_render_board(play_unchecked(Unwrap(movetext), m))
         /\ moves' = Append(moves, m)
    /\ UNCHANGED <<pc, flip, PIECE_IMAGES, tags, created, output, ntags>>
    /\ UNCHANGED <<variations, quantVars, geomVars, rasterVars>>

\* main.rs Visitor::san, the move is not valid: Break(Err(err.into())), on
\* which main's unwrap panics
main_san_err ==
    /\ pc = "main_movetext"
    /\ Len(moves) < MaxMoves
    /\ \E m \in SanTokens : ~ToMoveOk(Unwrap(movetext), m)
    /\ output' = Result("panic", <<>>)
    /\ pc' = "main_exit"
    /\ UNCHANGED <<flip, PIECE_IMAGES, tags, movetext, last_image, written,
                   created, submitted, moves, ntags, calls>>
    /\ UNCHANGED <<variations, quantVars, geomVars, rasterVars>>

main_end_game ==
    /\ pc = "main_movetext"
    /\ main_render_final_frame
    /\ output' = Result("Ok(Some(Ok))", <<>>)
    /\ pc' = "main_exit"
    /\ UNCHANGED <<flip, PIECE_IMAGES, tags, movetext, created, submitted,
                   moves, ntags>>
    /\ UNCHANGED <<variations, quantVars, geomVars, rasterVars>>

InitMain ==
    /\ pc = "main"
    /\ flip \in BOOLEAN
    /\ PIECE_IMAGES \in Assets
    /\ tags = None
    /\ movetext = None
    /\ last_image = None
    /\ written = <<>>
    /\ created = FALSE
    /\ output = Pending
    /\ submitted = <<>>
    /\ moves = <<>>
    /\ ntags = 0
    /\ calls = <<>>
    /\ variations = 0
    /\ pixel = << 0, 0, 0 >>
    /\ indexed = None
    /\ squares = << 0, 0 >>
    /\ offsets = None
    /\ flips = 0
    /\ point = << 0, 0 >>
    /\ rendered = None

NextMain ==
    \/ main
    \/ main_begin_tags
    \/ main_tag
    \/ main_begin_movetext
    \/ main_san_ok
    \/ main_san_err
    \/ main_end_game

SpecMain == InitMain /\ [][NextMain]_vars

----------------------------------------------------------------------------
\* The quantizer on its own: one colour in, one palette index out.

GridValue(k) == (k * 255) \div (GridLevels - 1)
GridChannel == { GridValue(k) : k \in 0 .. (GridLevels - 1) }
Clamp(v) == IF v < 0 THEN 0 ELSE IF v > 255 THEN 255 ELSE v
Near(v) == { Clamp(v + d) : d \in (0 - Radius) .. Radius }
\* RGB inputs: a grid over the colour cube, and the neighbourhood of every
\* palette entry
QuantRGB ==
    (GridChannel \X GridChannel \X GridChannel)
    \cup UNION { Near(PaletteAt(i)[1]) \X Near(PaletteAt(i)[2]) \X Near(PaletteAt(i)[3]) :
                 i \in PaletteIdx }
\* alpha is carried by the pixel and not read by the quantizer
QuantInputs == { << c[1], c[2], c[3], a >> : c \in QuantRGB, a \in {0, 255} }

InitQuant ==
    /\ pc = "quantizer"
    /\ flip = FALSE
    /\ PIECE_IMAGES = [p \in Pieces |-> [o \in {Sample} |-> << 0, 0, 0, 0 >>]]
    /\ tags = None
    /\ movetext = None
    /\ last_image = None
    /\ written = <<>>
    /\ created = FALSE
    /\ output = Pending
    /\ submitted = <<>>
    /\ moves = <<>>
    /\ ntags = 0
    /\ calls = <<>>
    /\ variations = 0
    /\ pixel \in QuantInputs
    /\ indexed = None
    /\ squares = << 0, 0 >>
    /\ offsets = None
    /\ flips = 0
    /\ point = << 0, 0 >>
    /\ rendered = None

\* one application of the closure of render_frame's map
quantize_pixel ==
    /\ pc = "quantizer"
    /\ indexed = None
    /\ indexed' = Some(Quantize(pixel))
    /\ UNCHANGED <<pixel, pipeVars, geomVars, rasterVars>>

NextQuant == quantize_pixel

SpecQuant == InitQuant /\ [][NextQuant]_vars

----------------------------------------------------------------------------
\* Square geometry on its own: two squares in, two offsets out.

InitGeom ==
    /\ pc = "geometry"
    /\ flip \in BOOLEAN
    /\ PIECE_IMAGES = [p \in Pieces |-> [o \in {Sample} |-> << 0, 0, 0, 0 >>]]
    /\ tags = None
    /\ movetext = None
    /\ last_image = None
    /\ written = <<>>
    /\ created = FALSE
    /\ output = Pending
    /\ submitted = <<>>
    /\ moves = <<>>
    /\ ntags = 0
    /\ calls = <<>>
    /\ variations = 0
    /\ pixel = << 0, 0, 0 >>
    /\ indexed = None
    /\ squares \in AllSquares \X AllSquares
    /\ offsets = None
    /\ flips = 0
    /\ point = << 0, 0 >>
    /\ rendered = None

\* the offsets render_board computes for the two squares
place_squares ==
    /\ pc = "geometry"
    /\ offsets = None
    /\ offsets' = Some(<< SquareOffset(squares[1], flip), SquareOffset(squares[2], flip) >>)
    /\ UNCHANGED <<squares, flips, pipeVars, quantVars, rasterVars>>

\* the flip of render_board applied once more to the offsets
flip_offsets ==
    /\ pc = "geometry"
    /\ IsSome(offsets)
    /\ flips < 2
    /\ offsets' = Some(<< FlipOffset(Unwrap(offsets)[1]), FlipOffset(Unwrap(offsets)[2]) >>)
    /\ flips' = flips + 1
    /\ UNCHANGED <<squares, pipeVars, quantVars, rasterVars>>

NextGeom ==
    \/ place_squares
    \/ flip_offsets

SpecGeom == InitGeom /\ [][NextGeom]_vars

----------------------------------------------------------------------------
\* The rasterizer on its own: the empty board, one pixel at a time.

InitRaster ==
    /\ pc = "rasterizer"
    /\ flip \in BOOLEAN
    /\ PIECE_IMAGES = [p \in Pieces |-> [o \in {Sample} |-> << 0, 0, 0, 0 >>]]
    /\ tags = None
    /\ movetext = None
    /\ last_image = None
    /\ written = <<>>
    /\ created = FALSE
    /\ output = Pending
    /\ submitted = <<>>
    /\ moves = <<>>
    /\ ntags = 0
    /\ calls = <<>>
    /\ variations = 0
    /\ pixel = << 0, 0, 0 >>
    /\ indexed = None
    /\ squares = << 0, 0 >>
    /\ offsets = None
    /\ flips = 0
    /\ point \in RasterPoints
    /\ rendered = None

\* render_board of the empty board, read at the pixel
render_empty ==
    /\ pc = "rasterizer"
    /\ rendered = None
    /\ rendered' = Some(RenderPixel(EmptyBoard, flip, point[1], point[2]))
    /\ UNCHANGED <<point, pipeVars, quantVars, geomVars>>

NextRaster == render_empty

SpecRaster == InitRaster /\ [][NextRaster]_vars

----------------------------------------------------------------------------
\* Properties.

\* the written frame k shows submission k: the sentinel at the positions of
\* that submission's transparent set, the submission's own index elsewhere
BuiltFrom(frame, held) ==
    /\ DOMAIN frame.pixels = DOMAIN held.pixels
    /\ \A i \in DOMAIN held.pixels :
         frame.pixels[i] = (IF i \in held.transparent THEN 20 ELSE held.pixels[i])

\* C1: after n >= 1 submissions and before finish n - 1 frames are written
\* (so the 1st submission writes nothing and every later one writes exactly
\* one frame); after finish n frames are written; the k-th written frame is
\* built from the pixels of the k-th submission, in submission order.
C1_FramesFollowSubmissions ==
    /\ IsSome(last_image) => Len(written) = Len(submitted) - 1
    /\ last_image = None => Len(written) = Len(submitted)
    /\ pc = "movetext" => IsSome(last_image)
    /\ pc = "done" => last_image = None
    /\ \A k \in 1 .. Len(written) : BuiltFrom(written[k], submitted[k])

C1_Witness ==
    /\ pc = "done"
    /\ Len(submitted) = 3
    /\ Len(written) = 3
    /\ submitted[1].pixels # submitted[2].pixels
    /\ submitted[2].pixels # submitted[3].pixels

\* C2: every frame written by render_frame has delay 62 and the frame written
\* by render_final_frame has delay 500: once end_game has run, the last
\* written frame, and only the last, has delay 500.
C2_FrameTiming ==
    /\ pc = "done" => Len(written) >= 1
    /\ \A k \in 1 .. Len(written) :
         written[k].delay = (IF pc = "done" /\ k = Len(written) THEN 500 ELSE 62)

C2_Witness ==
    /\ pc = "done"
    /\ Len(written) = 3
    /\ written[3].delay = 500
    /\ written[1].delay = 62

\* C3: one submission and then finish give exactly one frame, with the delay
\* 500 and with no pixel equal to the sentinel index.
C3_SingleFrameOpaque ==
    (pc = "done" /\ Len(submitted) = 1) =>
        /\ Len(written) = 1
        /\ written[1].delay = 500
        /\ \A i \in DOMAIN written[1].pixels : written[1].pixels[i] # TRANSPARENT_IDX

\* C4: a game with no san event writes exactly one frame: begin_movetext
\* submits the initial position and writes nothing, end_game writes that
\* frame.
C4_EmptyMovetext ==
    /\ (pc = "movetext" /\ moves = <<>>) =>
         /\ written = <<>>
         /\ Len(submitted) = 1
         /\ submitted[1].pixels = IndexedPixels(render_board(Unwrap(movetext), flip))
    /\ (pc = "done" /\ moves = <<>>) =>
         /\ Len(written) = 1
         /\ Len(submitted) = 1
         /\ written[1].pixels = IndexedPixels(render_board(Unwrap(movetext), flip))

C4_Witness ==
    /\ pc = "done"
    /\ moves = <<>>
    /\ Len(written) = 1
    /\ IsSome(tags)

\* C5 as stated: of two identical consecutive submissions, the FIRST is
\* written with the sentinel at every position, unless it is the first frame
\* of the sequence, which has no transparent position.
C5_FirstOfTwoTransparent ==
    \A k \in 1 .. Len(written) :
        (k + 1 <= Len(submitted) /\ submitted[k].pixels = submitted[k + 1].pixels) =>
            IF k = 1
            THEN submitted[1].transparent = {}
            ELSE \A i \in DOMAIN written[k].pixels :
                    written[k].pixels[i] = TRANSPARENT_IDX

\* C5 (amended): of two identical consecutive submissions, the SECOND is
\* written with the sentinel at every position; the first frame of the
\* sequence has an empty transparent-position set.
C5_SecondOfTwoTransparent ==
    /\ \A k \in 2 .. Len(written) :
         submitted[k].pixels = submitted[k - 1].pixels =>
             \A i \in DOMAIN written[k].pixels :
                 written[k].pixels[i] = TRANSPARENT_IDX
    /\ Len(submitted) >= 1 => submitted[1].transparent = {}

C5_Witness ==
    /\ Len(written) = 3
    /\ submitted[3].pixels = submitted[2].pixels
    /\ submitted[2].pixels # submitted[1].pixels
    /\ \A i \in DOMAIN written[3].pixels : written[3].pixels[i] = TRANSPARENT_IDX

\* the squares of the model a move leaves alone
Untouched(m) == Squares \ Touched(m)

\* C6 as stated: a two-move game writes 3 frames and the second has the
\* sentinel at the pixels of every square move 2 does not touch.
C6_UntouchedByMove2 ==
    (pc = "done" /\ Len(moves) = 2) =>
        /\ Len(written) = 3
        /\ \A sq \in Untouched(moves[2]) :
             written[2].pixels[SamplePos(sq, flip)] = TRANSPARENT_IDX

\* C6 (amended): a two-move game writes 3 frames and the second has the
\* sentinel at the pixels of every square move 1 does not touch.
C6_UntouchedByMove1 ==
    (pc = "done" /\ Len(moves) = 2) =>
        /\ Len(written) = 3
        /\ \A sq \in Untouched(moves[1]) :
             written[2].pixels[SamplePos(sq, flip)] = TRANSPARENT_IDX

C6_Witness ==
    /\ pc = "done"
    /\ Len(moves) = 2
    /\ Untouched(moves[1]) # {}
    /\ \E sq \in Touched(moves[1]) :
         written[2].pixels[SamplePos(sq, flip)] # TRANSPARENT_IDX

\* C7: the sentinel index does not occur in the first written frame.
C7_FirstFrameNoSentinel ==
    Len(written) >= 1 =>
        \A i \in DOMAIN written[1].pixels : written[1].pixels[i] # TRANSPARENT_IDX

\* C8: the quantizer never assigns the sentinel index to a colour.
C8_QuantizerAvoidsSentinel ==
    IsSome(indexed) => Unwrap(indexed) # TRANSPARENT_IDX

\* |r - e.r| + |g - e.g| + |b - e.b|
Abs(v) == IF v < 0 THEN 0 - v ELSE v
Manhattan(p, e) == Abs(p[1] - e[1]) + Abs(p[2] - e[2]) + Abs(p[3] - e[3])

\* C9: the quantizer returns the lowest index among the palette entries at
\* minimum Manhattan distance from the colour (alpha not read); a colour
\* equal to palette entry i gets index i.
C9_LowestNearest ==
    IsSome(indexed) =>
        LET r == Unwrap(indexed)
        IN  /\ r \in PaletteIdx
            /\ \A j \in PaletteIdx :
                 /\ Manhattan(pixel, PaletteAt(r)) <= Manhattan(pixel, PaletteAt(j))
                 /\ j < r => Manhattan(pixel, PaletteAt(r)) < Manhattan(pixel, PaletteAt(j))
            /\ \A i \in PaletteIdx :
                 << pixel[1], pixel[2], pixel[3] >> = PaletteAt(i) => r = i

\* a colour at the same minimum distance from two palette entries
C9_Witness ==
    /\ IsSome(indexed)
    /\ \E j \in PaletteIdx :
         /\ j > Unwrap(indexed)
         /\ Manhattan(pixel, PaletteAt(j)) = Manhattan(pixel, PaletteAt(Unwrap(indexed)))

\* C10: for both orientations the 50x50 regions of two distinct squares are
\* distinct and do not overlap, and each lies in the 400x400 canvas: both
\* offsets are multiples of 50 in 0..350.
C10_RegionsDisjoint ==
    IsSome(offsets) =>
        LET a == Unwrap(offsets)[1]
            b == Unwrap(offsets)[2]
        IN  /\ \A c \in {a[1], a[2], b[1], b[2]} :
                 c % 50 = 0 /\ 0 <= c /\ c <= 350 /\ c + 50 <= 400
            /\ squares[1] # squares[2] =>
                 /\ a # b
                 /\ \/ Abs(a[1] - b[1]) >= 50
                    \/ Abs(a[2] - b[2]) >= 50

\* two squares next to each other on a file, board flipped
C10_Witness ==
    /\ IsSome(offsets)
    /\ flip
    /\ squares[1] # squares[2]
    /\ Unwrap(offsets)[1][1] = Unwrap(offsets)[2][1]
    /\ Abs(Unwrap(offsets)[1][2] - Unwrap(offsets)[2][2]) = 50

\* C11: unflipped, square (file f, rank r) is at (50 f, 50 (7 - r)), rank 7 at
\* the top; the flip maps (x, y) to (350 - x, 350 - y), which puts square
\* (f, r) where square (7 - f, 7 - r) is drawn unflipped; two flips give the
\* original offset back.
C11_FlipInvolution ==
    IsSome(offsets) =>
        \A j \in {1, 2} :
            LET f == squares[j] % 8
                r == squares[j] \div 8
                o == Unwrap(offsets)[j]
                flipped == (flip /\ flips % 2 = 0) \/ (~flip /\ flips % 2 = 1)
            IN  /\ ~flipped => o = << 50 * f, 50 * (7 - r) >>
                /\ (~flipped /\ r = 7) => o[2] = 0
                /\ flipped => o = << 350 - 50 * f, 350 - 50 * (7 - r) >>
                /\ flipped => o = << 50 * (7 - f), 50 * (7 - (7 - r)) >>

\* square b3 (file 1, rank 2), flipped twice from the unflipped offset
C11_Witness ==
    /\ IsSome(offsets)
    /\ ~flip
    /\ flips = 2
    /\ squares[1] = 17
    /\ Unwrap(offsets)[1] = << 50, 250 >>

\* C12: the raster of an empty board is the two-colour checkerboard: pixel
\* (x, y) is (255,206,158) when (x div 50) and (y div 50) have the same
\* parity and (209,139,71) otherwise, in both orientations; every cell has
\* the colour of its corner pixel and differs from the cells next to it.
C12_Checkerboard ==
    IsSome(rendered) =>
        LET x == point[1]
            y == point[2]
            c == Unwrap(rendered)
        IN  /\ c = (IF ((x \div 50) + (y \div 50)) % 2 = 0
                    THEN << 255, 206, 158, 255 >>
                    ELSE << 209, 139, 71, 255 >>)
            /\ c = RenderPixel(EmptyBoard, flip, 50 * (x \div 50), 50 * (y \div 50))
            /\ x + 50 < 400 => c # RenderPixel(EmptyBoard, flip, x + 50, y)
            /\ y + 50 < 400 => c # RenderPixel(EmptyBoard, flip, x, y + 50)

\* the last pixel of the top row, board flipped: a dark cell
C12_Witness ==
    /\ IsSome(rendered)
    /\ flip
    /\ point = << 399, 0 >>
    /\ Unwrap(rendered) = << 209, 139, 71, 255 >>

\* C13: render_final_frame on an empty slot writes no frame and leaves the
\* slot empty; when the input holds no game render_game returns Ok(None) and
\* has created no output, called no method of a renderer and written no
\* frame.
C13_NothingFromNothing ==
    /\ [][(call_render_final_frame /\ last_image = None) =>
             (written' = written /\ last_image' = None)]_vars
    /\ [](output.kind = "Ok(None)" =>
             (~created /\ calls = <<>> /\ written = <<>> /\ last_image = None))

\* render_final_frame called again after it has emptied the slot
C13_Witness ==
    /\ calls = << "render_frame", "render_final_frame", "render_final_frame" >>
    /\ Len(written) = 1
    /\ last_image = None

\* C14: a san event whose move is not valid breaks with an error whose
\* context is the text of that move; the step leaves the position, the slot
\* and the submissions as they are and writes no frame, and no frame is
\* written afterwards.
C14_InvalidMoveAborts ==
    /\ [][\A m \in SanTokens :
            san_err_with(m) =>
                (output'.kind = "Break(Err)" /\ output'.context = << m.from, m.to >>)]_vars
    /\ [][(pc = "movetext" /\ output'.kind = "Break(Err)") =>
             /\ \E m \in SanTokens :
                  /\ Unwrap(movetext)[m.from] = NoPiece
                  /\ output'.context = << m.from, m.to >>
             /\ movetext' = movetext
             /\ submitted' = submitted
             /\ last_image' = last_image
             /\ written' = written]_vars
    /\ [][output.kind = "Break(Err)" =>
             (written' = written /\ submitted' = submitted)]_vars

\* an invalid move after one valid move
C14_Witness ==
    /\ output.kind = "Break(Err)"
    /\ Len(output.context) = 2
    /\ Len(moves) = 1
    /\ Len(submitted) = 2
    /\ Len(written) = 1
    /\ IsSome(last_image)

\* C15: in the pipeline of main.rs, once the game has ended, the last written
\* frame (the one render_final_frame wrote) has a longer delay than every frame
\* render_board wrote before it.
C15_MainFinalFrameLonger ==
    (pc = "main_exit" /\ output.kind = "Ok(Some(Ok))") =>
        \A k \in 1 .. (Len(written) - 1) :
            written[Len(written)].delay > written[k].delay

\* the position the game starts from, and the position of its k-th submission
\* (the start, then one per played move)
InitialBoard == IF IsSome(tags) THEN Unwrap(tags) ELSE DefaultBoard
RECURSIVE PositionAt(_)
PositionAt(k) ==
    IF k = 1 THEN InitialBoard
    ELSE play_unchecked(PositionAt(k - 1), moves[k - 1])
\* q_k: the quantized index array of the k-th submission, nothing substituted
QuantizedAt(k) == IndexedPixels(render_board(PositionAt(k), flip))
\* the positions where q_k and q_(k-1) agree
AgreeAt(k) ==
    LET qk == QuantizedAt(k)
        qp == QuantizedAt(k - 1)
    IN  { i \in Pix(flip) : qk[i] = qp[i] }
\* q_k with the sentinel at the positions `replaced`
Substituted(qk, replaced) ==
    [i \in Pix(flip) |-> IF i \in replaced THEN TRANSPARENT_IDX ELSE qk[i]]

\* the statement of C16 for submissions k, k+1, ..: `board` is the position of
\* submission k and qp is q_(k-1), both obtained by replaying the game
RECURSIVE DeltaHoldsFrom(_, _, _)
DeltaHoldsFrom(k, board, qp) ==
    \/ k > Len(submitted)
    \/ LET qk == IndexedPixels(render_board(board, flip))
           replaced == IF k = 1 THEN {} ELSE { i \in Pix(flip) : qk[i] = qp[i] }
       IN  /\ submitted[k].pixels = qk
           /\ submitted[k].transparent = replaced
           /\ (2 <= k /\ k <= Len(written)) =>
                  written[k].pixels = Substituted(qk, replaced)
           /\ \/ k = Len(submitted)
              \/ DeltaHoldsFrom(k + 1, play_unchecked(board, moves[k]), qk)

\* C16: the slot and the history keep q_k itself; for every k >= 2 the set of
\* positions of frame k that the sentinel replaces is exactly the set where
\* q_k and q_(k-1) agree, and the written frame k is q_k with the sentinel at
\* those positions and nowhere else substituted.
C16_DeltaAgainstPredecessor == DeltaHoldsFrom(1, InitialBoard, << >>)
\* submissions A, B, A, all written: the third is transparent where A and B
\* agree, and not where they differ although it equals the first there
C16_Witness ==
    /\ Len(written) = 3
    /\ QuantizedAt(3) = QuantizedAt(1)
    /\ QuantizedAt(2) # QuantizedAt(1)
    /\ submitted[3].transparent = AgreeAt(2)
    /\ submitted[3].transparent # DOMAIN QuantizedAt(3)
    /\ submitted[3].transparent # {}

\* C17: the slot holds at most one pair; it is empty from construction until
\* the first render_frame, holds the most recent submission after a
\* render_frame and is empty after a render_final_frame; the held frame is the
\* one submission not yet written, so no frame is both held and written.
C17_SlotDiscipline ==
    /\ Len(last_image) <= 1
    /\ calls = <<>> => last_image = None
    /\ (calls # <<>> /\ calls[Len(calls)] = "render_frame") =>
           /\ IsSome(last_image)
           /\ Unwrap(last_image) = submitted[Len(submitted)]
    /\ (calls # <<>> /\ calls[Len(calls)] = "render_final_frame") =>
           last_image = None
    /\ Len(written) = Len(submitted) - Len(last_image)
    /\ \A k \in 1 .. Len(written) : BuiltFrom(written[k], submitted[k])
\* the slot filled again after a flush: two frames written, the third held
C17_Witness ==
    /\ calls = << "render_frame", "render_frame", "render_final_frame", "render_frame" >>
    /\ created
    /\ IsSome(last_image)
    /\ Len(submitted) = 3
    /\ Len(written) = 2

\* a pixel vector of `len` entries at positions 0 .. len-1, each a palette index
WellFormedPixels(pixels, len) ==
    /\ len = CanvasSize * CanvasSize
    /\ DOMAIN pixels \subseteq 0 .. (len - 1)
    /\ \A i \in DOMAIN pixels : pixels[i] \in 0 .. (Len(PALETTE) - 1)

\* C18: the held frame and every written frame have width * height = 400 * 400
\* entries, each a palette index 0 .. 20, and every transparent position is
\* below width * height.
C18_FramesWellFormed ==
    /\ \A k \in 1 .. Len(written) :
         /\ written[k].len = written[k].width * written[k].height
         /\ WellFormedPixels(written[k].pixels, written[k].len)
    /\ \A k \in 1 .. Len(submitted) :
         /\ WellFormedPixels(submitted[k].pixels, submitted[k].len)
         /\ submitted[k].transparent \subseteq 0 .. (submitted[k].len - 1)
    /\ IsSome(last_image) =>
         /\ WellFormedPixels(Unwrap(last_image).pixels, Unwrap(last_image).len)
         /\ Unwrap(last_image).transparent \subseteq 0 .. (Unwrap(last_image).len - 1)
\* a held frame with transparent positions after a written frame that carries
\* the sentinel
C18_Witness ==
    /\ Len(written) = 2
    /\ IsSome(last_image)
    /\ Unwrap(last_image).transparent # {}
    /\ \E i \in DOMAIN written[2].pixels : written[2].pixels[i] = TRANSPARENT_IDX

\* C19: every step leaves the sequence of written frames as it is or appends
\* exactly one frame to it; the frames already written stay as they are.
C19_AppendOnly ==
    [][\/ written' = written
       \/ /\ Len(written') = Len(written) + 1
          /\ SubSeq(written', 1, Len(written)) = written]_vars
\* a finished game of three frames, no two of them equal
C19_Witness ==
    /\ pc = "done"
    /\ Len(written) = 3
    /\ written[1] # written[2]
    /\ written[2] # written[3]
    /\ written[1] # written[3]

\* a decoder of the written stream: the canvas starts with no palette index
\* anywhere; a frame overwrites the canvas where its pixel is not the sentinel
\* and keeps the canvas where it is
Uncovered == 0 - 1
RECURSIVE Canvas(_)
Canvas(k) ==
    IF k = 0 THEN [i \in Pix(flip) |-> Uncovered]
    ELSE [i \in Pix(flip) |->
            IF written[k].pixels[i] = TRANSPARENT_IDX
            THEN Canvas(k - 1)[i]
            ELSE written[k].pixels[i]]

\* C20: after the k-th written frame, the decoder's canvas is the quantized
\* index array of the k-th submission.
C20_DecoderReproduces ==
    \A k \in 1 .. Len(written) : Canvas(k) = submitted[k].pixels

\* C21: once a move has failed after k >= 1 submissions, end_game has not run:
\* exactly k - 1 frames are written, the k-th is still held in the slot, no
\* written frame has the final delay of 500, and nothing is written afterwards.
C21_FailureLeavesHeldFrame ==
    /\ []((output.kind = "Break(Err)" /\ Len(submitted) >= 1) =>
            /\ pc = "returned"
            /\ \A j \in 1 .. Len(calls) : calls[j] # "render_final_frame"
            /\ Len(written) = Len(submitted) - 1
            /\ last_image = Some(submitted[Len(submitted)])
            /\ \A j \in 1 .. Len(written) :
                 /\ written[j].delay # FINAL_DELAY
                 /\ BuiltFrom(written[j], submitted[j]))
    /\ [][(output.kind = "Break(Err)" /\ Len(submitted) >= 1) =>
             (written' = written /\ last_image' = last_image)]_vars
\* a move fails after the start position and one valid move: one frame is
\* written with the short delay, the second position is held
C21_Witness ==
    /\ output.kind = "Break(Err)"
    /\ pc = "returned"
    /\ calls = << "render_frame", "render_frame" >>
    /\ Len(written) = 1
    /\ written[1].delay = FRAME_DELAY
    /\ last_image = Some(submitted[2])

\* C22: a variation changes nothing but the reader's place in the input: no
\* frame is submitted or written and the current position stays.  So the
\* current position is the start position with the mainline moves played, there
\* is one submission for the start position and one per mainline move, and a
\* finished game has written exactly these frames, in mainline order.
C22_VariationsSkipped ==
    /\ [][variations' # variations =>
             /\ movetext' = movetext
             /\ moves' = moves
             /\ submitted' = submitted
             /\ last_image' = last_image
             /\ written' = written
             /\ calls' = calls
             /\ output' = output]_vars
    /\ [](IsSome(movetext) =>
             /\ Unwrap(movetext) = PositionAt(Len(moves) + 1)
             /\ Len(submitted) = Len(moves) + 1
             /\ submitted[Len(submitted)].pixels = QuantizedAt(Len(moves) + 1))
    /\ [](pc = "done" =>
             /\ Len(written) = Len(moves) + 1
             /\ \A k \in 1 .. Len(written) :
                  LET qk == QuantizedAt(k)
                  IN  written[k].pixels =
                          Substituted(qk, IF k = 1 THEN {} ELSE AgreeAt(k)))
\* a finished game of two mainline moves and a variation: three frames
C22_Witness ==
    /\ pc = "done"
    /\ variations = 1
    /\ Len(moves) = 2
    /\ Len(written) = 3
    /\ QuantizedAt(2) # QuantizedAt(1)

====
